---- MODULE Spec2Model ----
(***************************************************************************)
(* Model of wlsctx.py: a one-shot bootstrap that creates a temporary       *)
(* runtime directory, binds the wp_security_context_manager_v1 global,     *)
(* creates a listening Unix socket plus a synchronisation pipe, registers  *)
(* them as a security context, commits, and prints the directory path.     *)
(*                                                                         *)
(* Each invocation of the program is a process p \in Procs.  The processes *)
(* share the filesystem (dirs, sockFiles) and the display server's         *)
(* advertisement list (globals).  The nested with-statements of main() are *)
(* modelled by the exit_sock / exit_display / exit_dir steps, which run on *)
(* the normal path and, with exc[p] set, while an exception unwinds.       *)
(***************************************************************************)
EXTENDS Integers, Sequences, FiniteSets, TLC

\* ---------------------------------------------------------------- bounds
NumProcs == 2
SuffixLen == 1
MaxGlobals == 2
MaxAttempts == 2

Procs == 1..NumProcs

\* ------------------------------------------------------------ constants
\* Python's None; a value that may be None is held as a sequence of length <= 1,
\* a string as its sequence of characters
None == <<>>
ManagerName == "wp_security_context_manager_v1"
Interfaces == {ManagerName, "wl_compositor"}
Versions == {1, 2}
Prefix == <<"i", "s", "o", "l", "-">>
SandboxEngine == "io.r5t"
AppId == "sandbox.devenv"
\* a subset of the characters tempfile draws the random part of a name from
Chars == {"a", "b"}
\* xdg_runtime_dir(), as a string of characters
RuntimeDir == <<"/", "r">>
\* values display.roundtrip() can return: -1 on failure, else an event
\* count, of which 0 is the one nearest to the test of line 42
RoundtripResults == {-1, 0}
\* the descriptors 0, 1 and 2 are the standard streams
FirstFd == 3
\* exc[p] while no exception is propagating
NoExc == ""
\* the calls of main() that can fail for reasons outside the program
Calls == {"connect", "roundtrip", "socket", "bind", "listen", "pipe2", "request"}

VARIABLES
    pc,          \* pc[p]: the statement process p executes next
    exc,         \* exc[p]: the statement whose exception is propagating, or NoExc
    trace,       \* trace[p]: the statements completed so far, in order
    attempts,    \* attempts[p]: names mkdtemp has tried
    rundir,      \* rundir[p]: path of the temporary directory, or None
    instance_id, \* instance_id[p]
    fdtab,       \* fdtab[p]: open descriptors, a set of [fd, kind]
    connected,   \* connected[p]: the Display is connected
    hasRegistry, \* hasRegistry[p]: get_registry was requested
    handler,     \* handler[p]: registry.dispatcher["global"] is installed
    manager,     \* manager[p]: ext.manager, None or [id, version]
    delivered,   \* delivered[p]: global events dispatched to p so far
    binds,       \* binds[p]: registry.bind requests issued
    listen_sock, \* listen_sock[p]: [fd, state] of the socket object
    sync_fds,    \* sync_fds[p]: <<read fd, write fd>> or <<>>
    sent,        \* sent[p]: requests issued on manager and context
    lastRoundtrip, \* lastRoundtrip[p]: <<result>> of the roundtrip of line 42
    printed,     \* printed[p]: paths written to standard output
    acquired,    \* acquired[p]: context managers entered, in order
    released,    \* released[p]: context managers exited, in order
    dirs,        \* directories that exist under the runtime directory
    sockFiles,   \* directories that contain a socket file wayland-1
    globals,     \* the globals the display server advertises
    mayFail,     \* the calls the system or the server can refuse in this run
    namePool,    \* the paths mkdtemp can draw in this run
    unanswered   \* the display calls during which the server sends nothing

vars == <<pc, exc, trace, attempts, rundir, instance_id, fdtab, connected,
          hasRegistry, handler, manager, delivered, binds, listen_sock,
          sync_fds, sent, lastRoundtrip, printed, acquired, released,
          dirs, sockFiles, globals, mayFail, namePool, unanswered>>

\* ------------------------------------------------------- pure functions
Suffixes == [1..SuffixLen -> Chars]
\* the paths TemporaryDirectory(dir=xdg_runtime_dir(), prefix='isol-') can make
Names == {RuntimeDir \o <<"/">> \o Prefix \o s : s \in Suffixes}

\* os.path.basename: the part after the last "/"
RECURSIVE Basename(_)
Basename(path) ==
    IF path = <<>> THEN <<>>
    ELSE IF \E i \in 1..Len(path) : path[i] = "/"
         THEN Basename(Tail(path))
         ELSE path

StartsWith(s, pre) ==
    /\ Len(s) >= Len(pre)
    /\ SubSeq(s, 1, Len(pre)) = pre

\* a strip that goes on while the prefix is there
RECURSIVE RemovePrefixMut(_, _)
RemovePrefixMut(s, pre) ==
    IF pre # <<>> /\ StartsWith(s, pre)
    THEN RemovePrefixMut(SubSeq(s, Len(pre) + 1, Len(s)), pre)
    ELSE s

\* str.removeprefix
RemovePrefix(s, pre) ==
    IF StartsWith(s, pre) THEN SubSeq(s, Len(pre) + 1, Len(s)) ELSE s

\* the lowest descriptor number not in use
LowestFree(tab) ==
    CHOOSE n \in FirstFd..(FirstFd + Cardinality(tab)) :
        /\ \A e \in tab : e.fd # n
        /\ \A m \in FirstFd..(n - 1) : \E e \in tab : e.fd = m

FdOpen(tab, n) == \E e \in tab : e.fd = n
FdKind(tab, n) == IF FdOpen(tab, n) THEN (CHOOSE e \in tab : e.fd = n).kind ELSE "closed"

\* a global event carries the global's numeric name, interface and version
GlobalAttrs == Interfaces \X Versions

\* a handler that binds the manager at version 1 whatever is advertised
registry_global_handlerMut(mgr, ev) ==
    IF ev.interface = ManagerName
    THEN <<[id |-> ev.id, version |-> 1]>>
    ELSE mgr

\* registry_global_handler: the value of ext.manager after one global event
registry_global_handler(mgr, ev) ==
    IF ev.interface = ManagerName
    THEN <<[id |-> ev.id, version |-> ev.version]>>
    ELSE mgr

\* the registry.bind requests registry_global_handler issues for one event
HandlerBinds(ev) ==
    IF ev.interface = ManagerName
    THEN <<[id |-> ev.id, version |-> ev.version]>>
    ELSE <<>>

\* the dispatcher calls the handler once per event, in order of arrival
RECURSIVE DispatchEvents(_, _)
DispatchEvents(mgr, evs) ==
    IF evs = <<>> THEN mgr
    ELSE DispatchEvents(registry_global_handler(mgr, Head(evs)), Tail(evs))

RECURSIVE DispatchBinds(_)
DispatchBinds(evs) ==
    IF evs = <<>> THEN <<>>
    ELSE HandlerBinds(Head(evs)) \o DispatchBinds(Tail(evs))

\* a mkdir that does not fail on a name that is already taken
MkdirOKMut(existing, name) == TRUE

\* os.mkdir inside mkdtemp succeeds only when the name does not exist yet
MkdirOK(existing, name) == name \notin existing

\* the first descriptor of the pair, the read end
CloseFdMut(fds) == fds[1]

\* close_fd = sync_fds[1]: the second descriptor of the pair, the write end
CloseFd(fds) == fds[2]

\* listen_sock.fileno(): the descriptor, or -1 once the socket is closed
Fileno(sock) == IF sock.state = "closed" THEN -1 ELSE sock.fd

\* a round trip that gives up waiting
AnsweredMut(silent, call) == TRUE

\* display.roundtrip() has no timeout: it returns only after the server has
\* answered (or the connection has failed)
Answered(silent, call) == call \notin silent

\* a test that lets the failure value -1 pass
RoundtripFailedMut(r) == r < -1

\* the test of line 42: display.roundtrip() < 0
RoundtripFailed(r) == r < 0

\* a pipe whose write end is closed again at once
OpenPipeMut(tab, fds) == tab \cup {[fd |-> fds[1], kind |-> "pipe_r"]}

\* the descriptor table after os.pipe2 returned the pair fds
OpenPipe(tab, fds) ==
    tab \cup {[fd |-> fds[1], kind |-> "pipe_r"], [fd |-> fds[2], kind |-> "pipe_w"]}

\* a cleanup that leaves the tree in place
RmtreeMut(existing, path) == existing

\* TemporaryDirectory.cleanup(): the directory and what it holds are removed
Rmtree(existing, path) == existing \ {path}

\* the socket used without a with-block: its exceptions skip the close
UnwindMut(label) ==
    IF label = "mkdtemp" THEN "raised"
    ELSE IF label \in {"instance_id", "connect"} THEN "exit_dir"
    ELSE "exit_display"

\* where an exception raised by the statement at label goes: the exit of
\* the innermost with-block around it (lines 23, 25 and 31), or out of main
Unwind(label) ==
    IF label = "mkdtemp" THEN "raised"
    ELSE IF label \in {"instance_id", "connect"} THEN "exit_dir"
    ELSE IF label \in {"get_registry", "install_handler", "dispatch",
                       "roundtrip1", "socket"} THEN "exit_display"
    ELSE "exit_sock"

\* the path is printed whether or not an exception is propagating
AfterDisplayMut(e) == "print"

\* after the with-block of line 25: line 44 is inside the with-block of line
\* 23 and runs only when no exception is propagating
AfterDisplay(e) == IF e # NoExc THEN "exit_dir" ELSE "print"

\* after the with-block of line 23: main returns or the exception leaves it
AfterDir(e) == IF e # NoExc THEN "raised" ELSE "returned"

\* ------------------------------------------------------------------ Init
InitProc ==
    /\ exc = [p \in Procs |-> NoExc]
    /\ trace = [p \in Procs |-> <<>>]
    /\ attempts = [p \in Procs |-> 0]
    /\ rundir = [p \in Procs |-> None]
    /\ instance_id = [p \in Procs |-> None]
    /\ fdtab = [p \in Procs |-> {}]
    /\ connected = [p \in Procs |-> "unconnected"]
    /\ hasRegistry = [p \in Procs |-> FALSE]
    /\ handler = [p \in Procs |-> FALSE]
    /\ manager = [p \in Procs |-> None]
    /\ delivered = [p \in Procs |-> 0]
    /\ binds = [p \in Procs |-> <<>>]
    /\ listen_sock = [p \in Procs |-> [fd |-> -1, state |-> "none"]]
    /\ sync_fds = [p \in Procs |-> <<>>]
    /\ sent = [p \in Procs |-> <<>>]
    /\ lastRoundtrip = [p \in Procs |-> None]
    /\ printed = [p \in Procs |-> <<>>]
    /\ acquired = [p \in Procs |-> <<>>]
    /\ released = [p \in Procs |-> <<>>]

\* the advertisements of a server with up to MaxGlobals globals; the server
\* numbers its globals 1, 2, ... in the order it announces them
GlobalSeqs ==
    UNION {{[i \in 1..n |->
                [id |-> i, interface |-> f[i][1], version |-> f[i][2]]] :
              f \in [1..n -> GlobalAttrs]} : n \in 0..MaxGlobals}

\* one invocation; the runtime directory may still hold the directory of
\* another run
Init ==
    /\ InitProc
    /\ pc = [p \in Procs |-> IF p = 1 THEN "mkdtemp" ELSE "notrun"]
    /\ dirs \in {{}} \cup {{n} : n \in Names}
    /\ sockFiles = {}
    /\ globals \in GlobalSeqs
    /\ mayFail = Calls
    /\ namePool = Names
    /\ unanswered = {}

\* NumProcs invocations started together against one compositor that
\* advertises the security-context manager, on a system that refuses no call
InitConc ==
    /\ InitProc
    /\ pc = [p \in Procs |-> "mkdtemp"]
    /\ dirs = {}
    /\ sockFiles = {}
    /\ globals = <<[id |-> 1, interface |-> ManagerName, version |-> 1]>>
    /\ mayFail = {}
    /\ namePool = Names
    /\ unanswered = {}

\* random parts that begin with the prefix, with a piece of it, or end with it
TrickySuffixes ==
    UNION {{s, Prefix \o s, Prefix \o Prefix \o s, s \o Prefix, Prefix}
           \cup {SubSeq(Prefix, 1, k) \o s : k \in 1..Len(Prefix)}
           \cup {SubSeq(Prefix, k, Len(Prefix)) \o s : k \in 1..Len(Prefix)} :
           s \in Suffixes}

TrickyNames == {RuntimeDir \o <<"/">> \o Prefix \o s : s \in TrickySuffixes}

\* one invocation whose directory name is drawn from TrickyNames, against a
\* compositor that advertises the security-context manager
InitNames ==
    /\ InitProc
    /\ pc = [p \in Procs |-> IF p = 1 THEN "mkdtemp" ELSE "notrun"]
    /\ dirs \in {{}} \cup {{n} : n \in Names}
    /\ sockFiles = {}
    /\ globals = <<[id |-> 1, interface |-> ManagerName, version |-> 1]>>
    /\ mayFail = Calls
    /\ namePool = TrickyNames
    /\ unanswered = {}

\* the display calls of main()
DisplayCalls == {"dispatch", "roundtrip1", "roundtrip2"}

\* one invocation against a server that sends nothing during any of the
\* calls in unanswered
InitLive ==
    /\ InitProc
    /\ pc = [p \in Procs |-> IF p = 1 THEN "mkdtemp" ELSE "notrun"]
    /\ dirs \in {{}} \cup {{n} : n \in Names}
    /\ sockFiles = {}
    /\ globals \in {<<>>, <<[id |-> 1, interface |-> ManagerName, version |-> 1]>>}
    /\ mayFail = Calls
    /\ namePool = Names
    /\ unanswered \in SUBSET DisplayCalls

\* --------------------------------------------------------------- helpers
\* the statement at pc[p] completes and control moves to label
Done(p, label) ==
    /\ pc' = [pc EXCEPT ![p] = label]
    /\ trace' = [trace EXCEPT ![p] = Append(@, pc[p])]
    /\ UNCHANGED exc

\* the statement at pc[p] raises
Raise(p) ==
    /\ pc' = [pc EXCEPT ![p] = Unwind(pc[p])]
    /\ exc' = [exc EXCEPT ![p] = pc[p]]
    /\ UNCHANGED trace

\* ------------------------------------------------------------ the steps
\* line 23: TemporaryDirectory(dir=xdg_runtime_dir(), prefix='isol-');
\* mkdtemp draws a name and retries on FileExistsError
Mkdtemp(p) ==
    /\ pc[p] = "mkdtemp"
    /\ \/ /\ attempts[p] < MaxAttempts
          /\ \E n \in namePool :
                IF MkdirOK(dirs, n)
                THEN /\ dirs' = dirs \cup {n}
                     /\ rundir' = [rundir EXCEPT ![p] = n]
                     /\ attempts' = [attempts EXCEPT ![p] = 0]
                     /\ acquired' = [acquired EXCEPT ![p] = Append(@, "dir")]
                     /\ Done(p, "instance_id")
                ELSE /\ attempts' = [attempts EXCEPT ![p] = @ + 1]
                     /\ UNCHANGED <<dirs, rundir, acquired, pc, exc, trace>>
       \/ /\ attempts[p] >= MaxAttempts
          /\ Raise(p)
          /\ UNCHANGED <<dirs, rundir, attempts, acquired>>
    /\ UNCHANGED <<instance_id, fdtab, connected, hasRegistry, handler,
                   manager, delivered, binds, listen_sock, sync_fds, sent,
                   lastRoundtrip, printed, released, sockFiles, globals,
                   mayFail, namePool, unanswered>>

\* line 24
InstanceId(p) ==
    /\ pc[p] = "instance_id"
    /\ instance_id' = [instance_id EXCEPT
                         ![p] = RemovePrefix(Basename(rundir[p]), Prefix)]
    /\ Done(p, "connect")
    /\ UNCHANGED <<attempts, rundir, fdtab, connected, hasRegistry, handler,
                   manager, delivered, binds, listen_sock, sync_fds, sent,
                   lastRoundtrip, printed, acquired, released, dirs,
                   sockFiles, globals, mayFail, namePool, unanswered>>

\* line 25: Display() and its __enter__, which connects
Connect(p) ==
    /\ pc[p] = "connect"
    /\ \/ /\ fdtab' = [fdtab EXCEPT
                         ![p] = @ \cup {[fd |-> LowestFree(@), kind |-> "display"]}]
          /\ connected' = [connected EXCEPT ![p] = "connected"]
          /\ acquired' = [acquired EXCEPT ![p] = Append(@, "display")]
          /\ Done(p, "get_registry")
       \/ /\ "connect" \in mayFail
          /\ Raise(p)
          /\ UNCHANGED <<fdtab, connected, acquired>>
    /\ UNCHANGED <<attempts, rundir, instance_id, hasRegistry, handler,
                   manager, delivered, binds, listen_sock, sync_fds, sent,
                   lastRoundtrip, printed, released, dirs, sockFiles,
                   globals, mayFail, namePool, unanswered>>

\* line 26
GetRegistry(p) ==
    /\ pc[p] = "get_registry"
    /\ hasRegistry' = [hasRegistry EXCEPT ![p] = TRUE]
    /\ Done(p, "install_handler")
    /\ UNCHANGED <<attempts, rundir, instance_id, fdtab, connected, handler,
                   manager, delivered, binds, listen_sock, sync_fds, sent,
                   lastRoundtrip, printed, acquired, released, dirs,
                   sockFiles, globals, mayFail, namePool, unanswered>>

\* lines 27-28: ext = SecurityContextExt(); dispatcher["global"] = handler
InstallHandler(p) ==
    /\ pc[p] = "install_handler"
    /\ manager' = [manager EXCEPT ![p] = None]
    /\ handler' = [handler EXCEPT ![p] = TRUE]
    /\ Done(p, "dispatch")
    /\ UNCHANGED <<attempts, rundir, instance_id, fdtab, connected,
                   hasRegistry, delivered, binds, listen_sock, sync_fds,
                   sent, lastRoundtrip, printed, acquired, released, dirs,
                   sockFiles, globals, mayFail, namePool, unanswered>>

\* the events number delivered[p]+1 .. to of the advertisement reach the
\* dispatcher, which calls the handler if one is installed
Deliver(p, to) ==
    LET evs == IF handler[p] THEN SubSeq(globals, delivered[p] + 1, to) ELSE <<>>
    IN /\ manager' = [manager EXCEPT ![p] = DispatchEvents(@, evs)]
       /\ binds' = [binds EXCEPT ![p] = @ \o DispatchBinds(evs)]
       /\ delivered' = [delivered EXCEPT ![p] = to]

\* the server advertises its globals to a client that asked for the registry
Advertised(p) == IF hasRegistry[p] THEN Len(globals) ELSE 0

\* line 29: display.dispatch() is called without block=True: it hands over
\* the events that have arrived and does not wait for the server
Dispatch(p) ==
    /\ pc[p] = "dispatch"
    /\ \E k \in delivered[p]..Advertised(p) :
          /\ "dispatch" \in unanswered => k = delivered[p]
          /\ Deliver(p, k)
    /\ Done(p, "roundtrip1")
    /\ UNCHANGED <<attempts, rundir, instance_id, fdtab, connected,
                   hasRegistry, handler, listen_sock, sync_fds, sent,
                   lastRoundtrip, printed, acquired, released, dirs,
                   sockFiles, globals, mayFail, namePool, unanswered>>

\* line 30: display.roundtrip(); the result is dropped.  A round trip that
\* succeeds has dispatched every event the server sent before its reply; one
\* that fails leaves the connection in its error state.
Roundtrip1(p) ==
    /\ pc[p] = "roundtrip1"
    /\ Answered(unanswered, "roundtrip1")
    /\ \E r \in RoundtripResults :
          IF r >= 0
          THEN /\ connected[p] # "broken"
               /\ Deliver(p, Advertised(p))
               /\ UNCHANGED connected
          ELSE /\ "roundtrip" \in mayFail
               /\ \E k \in delivered[p]..Advertised(p) : Deliver(p, k)
               /\ connected' = [connected EXCEPT ![p] = "broken"]
    /\ Done(p, "socket")
    /\ UNCHANGED <<attempts, rundir, instance_id, fdtab, hasRegistry,
                   handler, listen_sock, sync_fds, sent, lastRoundtrip,
                   printed, acquired, released, dirs, sockFiles, globals,
                   mayFail, namePool, unanswered>>

\* line 31: socket.socket(AF_UNIX, SOCK_STREAM, 0) and its __enter__
Socket(p) ==
    /\ pc[p] = "socket"
    /\ \/ /\ LET n == LowestFree(fdtab[p])
             IN /\ fdtab' = [fdtab EXCEPT
                               ![p] = @ \cup {[fd |-> n, kind |-> "socket"]}]
                /\ listen_sock' = [listen_sock EXCEPT
                                     ![p] = [fd |-> n, state |-> "unbound"]]
          /\ acquired' = [acquired EXCEPT ![p] = Append(@, "socket")]
          /\ Done(p, "bind")
       \/ /\ "socket" \in mayFail
          /\ Raise(p)
          /\ UNCHANGED <<fdtab, listen_sock, acquired>>
    /\ UNCHANGED <<attempts, rundir, instance_id, connected, hasRegistry,
                   handler, manager, delivered, binds, sync_fds, sent,
                   lastRoundtrip, printed, released, dirs, sockFiles,
                   globals, mayFail, namePool, unanswered>>

\* line 32: bind creates the socket file rundir/wayland-1; it fails when the
\* directory is gone, when the file exists, or when the system refuses
Bind(p) ==
    /\ pc[p] = "bind"
    /\ \/ /\ rundir[p] \in dirs
          /\ rundir[p] \notin sockFiles
          /\ sockFiles' = sockFiles \cup {rundir[p]}
          /\ listen_sock' = [listen_sock EXCEPT ![p].state = "bound"]
          /\ Done(p, "listen")
       \/ /\ "bind" \in mayFail \/ rundir[p] \notin dirs \/ rundir[p] \in sockFiles
          /\ Raise(p)
          /\ UNCHANGED <<sockFiles, listen_sock>>
    /\ UNCHANGED <<attempts, rundir, instance_id, fdtab, connected,
                   hasRegistry, handler, manager, delivered, binds, sync_fds,
                   sent, lastRoundtrip, printed, acquired, released, dirs,
                   globals, mayFail, namePool, unanswered>>

\* line 33
Listen(p) ==
    /\ pc[p] = "listen"
    /\ \/ /\ listen_sock' = [listen_sock EXCEPT ![p].state = "listening"]
          /\ Done(p, "pipe2")
       \/ /\ "listen" \in mayFail
          /\ Raise(p)
          /\ UNCHANGED listen_sock
    /\ UNCHANGED <<attempts, rundir, instance_id, fdtab, connected,
                   hasRegistry, handler, manager, delivered, binds, sync_fds,
                   sent, lastRoundtrip, printed, acquired, released, dirs,
                   sockFiles, globals, mayFail, namePool, unanswered>>

\* line 34: os.pipe2(os.O_CLOEXEC) returns (read end, write end)
Pipe2(p) ==
    /\ pc[p] = "pipe2"
    /\ \/ /\ LET r == LowestFree(fdtab[p])
                 w == LowestFree(fdtab[p] \cup {[fd |-> r, kind |-> "pipe_r"]})
             IN /\ fdtab' = [fdtab EXCEPT ![p] = OpenPipe(@, <<r, w>>)]
                /\ sync_fds' = [sync_fds EXCEPT ![p] = <<r, w>>]
          /\ Done(p, "create_listener")
       \/ /\ "pipe2" \in mayFail
          /\ Raise(p)
          /\ UNCHANGED <<fdtab, sync_fds>>
    /\ UNCHANGED <<attempts, rundir, instance_id, connected, hasRegistry,
                   handler, manager, delivered, binds, listen_sock, sent,
                   lastRoundtrip, printed, acquired, released, dirs,
                   sockFiles, globals, mayFail, namePool, unanswered>>

\* lines 35-36: close_fd = sync_fds[1];
\* ext.manager.create_listener(listen_sock.fileno(), close_fd).
\* With ext.manager still None the attribute lookup raises AttributeError.
CreateListener(p) ==
    /\ pc[p] = "create_listener"
    /\ \/ /\ manager[p] # None
          /\ sent' = [sent EXCEPT
                        ![p] = Append(@, [op |-> "create_listener",
                                          args |-> <<Fileno(listen_sock[p]),
                                                     CloseFd(sync_fds[p])>>])]
          /\ Done(p, "set_sandbox_engine")
       \/ /\ manager[p] = None \/ "request" \in mayFail
          /\ Raise(p)
          /\ UNCHANGED sent
    /\ UNCHANGED <<attempts, rundir, instance_id, fdtab, connected,
                   hasRegistry, handler, manager, delivered, binds,
                   listen_sock, sync_fds, lastRoundtrip, printed, acquired,
                   released, dirs, sockFiles, globals, mayFail, namePool, unanswered>>

\* line 37
SetSandboxEngine(p) ==
    /\ pc[p] = "set_sandbox_engine"
    /\ \/ /\ sent' = [sent EXCEPT ![p] = Append(@, [op |-> "set_sandbox_engine", args |-> <<SandboxEngine>>])]
          /\ Done(p, "set_app_id")
       \/ /\ "request" \in mayFail
          /\ Raise(p)
          /\ UNCHANGED sent
    /\ UNCHANGED <<attempts, rundir, instance_id, fdtab, connected,
                   hasRegistry, handler, manager, delivered, binds,
                   listen_sock, sync_fds, lastRoundtrip, printed, acquired,
                   released, dirs, sockFiles, globals, mayFail, namePool, unanswered>>

\* line 38
SetAppId(p) ==
    /\ pc[p] = "set_app_id"
    /\ \/ /\ sent' = [sent EXCEPT ![p] = Append(@, [op |-> "set_app_id", args |-> <<AppId>>])]
          /\ Done(p, "set_instance_id")
       \/ /\ "request" \in mayFail
          /\ Raise(p)
          /\ UNCHANGED sent
    /\ UNCHANGED <<attempts, rundir, instance_id, fdtab, connected,
                   hasRegistry, handler, manager, delivered, binds,
                   listen_sock, sync_fds, lastRoundtrip, printed, acquired,
                   released, dirs, sockFiles, globals, mayFail, namePool, unanswered>>

\* line 39
SetInstanceId(p) ==
    /\ pc[p] = "set_instance_id"
    /\ \/ /\ sent' = [sent EXCEPT ![p] = Append(@, [op |-> "set_instance_id", args |-> <<instance_id[p]>>])]
          /\ Done(p, "commit")
       \/ /\ "request" \in mayFail
          /\ Raise(p)
          /\ UNCHANGED sent
    /\ UNCHANGED <<attempts, rundir, instance_id, fdtab, connected,
                   hasRegistry, handler, manager, delivered, binds,
                   listen_sock, sync_fds, lastRoundtrip, printed, acquired,
                   released, dirs, sockFiles, globals, mayFail, namePool, unanswered>>

\* the context is destroyed where line 40 should commit it
CommitMut(p) ==
    /\ pc[p] = "commit"
    /\ \/ /\ sent' = [sent EXCEPT ![p] = Append(@, [op |-> "destroy", args |-> <<>>])]
          /\ Done(p, "destroy")
       \/ /\ "request" \in mayFail
          /\ Raise(p)
          /\ UNCHANGED sent
    /\ UNCHANGED <<attempts, rundir, instance_id, fdtab, connected,
                   hasRegistry, handler, manager, delivered, binds,
                   listen_sock, sync_fds, lastRoundtrip, printed, acquired,
                   released, dirs, sockFiles, globals, mayFail, namePool, unanswered>>

\* line 40
Commit(p) ==
    /\ pc[p] = "commit"
    /\ \/ /\ sent' = [sent EXCEPT ![p] = Append(@, [op |-> "commit", args |-> <<>>])]
          /\ Done(p, "destroy")
       \/ /\ "request" \in mayFail
          /\ Raise(p)
          /\ UNCHANGED sent
    /\ UNCHANGED <<attempts, rundir, instance_id, fdtab, connected,
                   hasRegistry, handler, manager, delivered, binds,
                   listen_sock, sync_fds, lastRoundtrip, printed, acquired,
                   released, dirs, sockFiles, globals, mayFail, namePool, unanswered>>

\* line 41
Destroy(p) ==
    /\ pc[p] = "destroy"
    /\ \/ /\ sent' = [sent EXCEPT ![p] = Append(@, [op |-> "destroy", args |-> <<>>])]
          /\ Done(p, "roundtrip2")
       \/ /\ "request" \in mayFail
          /\ Raise(p)
          /\ UNCHANGED sent
    /\ UNCHANGED <<attempts, rundir, instance_id, fdtab, connected,
                   hasRegistry, handler, manager, delivered, binds,
                   listen_sock, sync_fds, lastRoundtrip, printed, acquired,
                   released, dirs, sockFiles, globals, mayFail, namePool, unanswered>>

\* lines 42-43: if display.roundtrip() < 0: raise RuntimeError.
\* A connection already in its error state can only report failure.
Roundtrip2(p) ==
    /\ pc[p] = "roundtrip2"
    /\ Answered(unanswered, "roundtrip2")
    /\ \E r \in RoundtripResults :
          /\ connected[p] = "broken" => r < 0
          /\ r < 0 => "roundtrip" \in mayFail \/ connected[p] = "broken"
          /\ lastRoundtrip' = [lastRoundtrip EXCEPT ![p] = <<r>>]
          /\ connected' = [connected EXCEPT ![p] = IF r < 0 THEN "broken" ELSE @]
          /\ Deliver(p, IF r >= 0 THEN Advertised(p) ELSE delivered[p])
          /\ IF RoundtripFailed(r) THEN Raise(p) ELSE Done(p, "exit_sock")
    /\ UNCHANGED <<attempts, rundir, instance_id, fdtab, hasRegistry,
                   handler, listen_sock, sync_fds, sent, printed, acquired,
                   released, dirs, sockFiles, globals, mayFail, namePool, unanswered>>

\* a close that also closes the descriptors opened after the socket, the
\* two ends of the pipe
ExitSockMut(p) ==
    /\ pc[p] = "exit_sock"
    /\ fdtab' = [fdtab EXCEPT ![p] = {e \in @ : e.fd < listen_sock[p].fd}]
    /\ listen_sock' = [listen_sock EXCEPT ![p].state = "closed"]
    /\ released' = [released EXCEPT ![p] = Append(@, "socket")]
    /\ Done(p, "exit_display")
    /\ UNCHANGED <<attempts, rundir, instance_id, connected, hasRegistry,
                   handler, manager, delivered, binds, sync_fds, sent,
                   lastRoundtrip, printed, acquired, dirs, sockFiles,
                   globals, mayFail, namePool, unanswered>>

\* end of the with-block of line 31: listen_sock.close().  The socket file
\* stays in the directory.
ExitSock(p) ==
    /\ pc[p] = "exit_sock"
    /\ fdtab' = [fdtab EXCEPT ![p] = {e \in @ : e.fd # listen_sock[p].fd}]
    /\ listen_sock' = [listen_sock EXCEPT ![p].state = "closed"]
    /\ released' = [released EXCEPT ![p] = Append(@, "socket")]
    /\ Done(p, "exit_display")
    /\ UNCHANGED <<attempts, rundir, instance_id, connected, hasRegistry,
                   handler, manager, delivered, binds, sync_fds, sent,
                   lastRoundtrip, printed, acquired, dirs, sockFiles,
                   globals, mayFail, namePool, unanswered>>

\* a with-block exit that leaves the display connected
ExitDisplayMut(p) ==
    /\ pc[p] = "exit_display"
    /\ released' = [released EXCEPT ![p] = Append(@, "display")]
    /\ Done(p, AfterDisplay(exc[p]))
    /\ UNCHANGED <<attempts, rundir, instance_id, fdtab, connected,
                   hasRegistry, handler, manager, delivered, binds,
                   listen_sock, sync_fds, sent, lastRoundtrip, printed,
                   acquired, dirs, sockFiles, globals, mayFail, namePool,
                   unanswered>>

\* end of the with-block of line 25: display.disconnect()
ExitDisplay(p) ==
    /\ pc[p] = "exit_display"
    /\ fdtab' = [fdtab EXCEPT ![p] = {e \in @ : e.kind # "display"}]
    /\ connected' = [connected EXCEPT ![p] = "disconnected"]
    /\ released' = [released EXCEPT ![p] = Append(@, "display")]
    /\ Done(p, AfterDisplay(exc[p]))
    /\ UNCHANGED <<attempts, rundir, instance_id, hasRegistry, handler,
                   manager, delivered, binds, listen_sock, sync_fds, sent,
                   lastRoundtrip, printed, acquired, dirs, sockFiles,
                   globals, mayFail, namePool, unanswered>>

\* line 44: print(f"rundir: {rundir}/")
WriteRundir(p) ==
    /\ pc[p] = "print"
    /\ printed' = [printed EXCEPT ![p] = Append(@, rundir[p])]
    /\ Done(p, "exit_dir")
    /\ UNCHANGED <<attempts, rundir, instance_id, fdtab, connected,
                   hasRegistry, handler, manager, delivered, binds,
                   listen_sock, sync_fds, sent, lastRoundtrip, acquired,
                   released, dirs, sockFiles, globals, mayFail, namePool, unanswered>>

\* end of the with-block of line 23: TemporaryDirectory.cleanup() removes
\* the directory and everything in it
ExitDir(p) ==
    /\ pc[p] = "exit_dir"
    /\ dirs' = Rmtree(dirs, rundir[p])
    /\ sockFiles' = Rmtree(sockFiles, rundir[p])
    /\ released' = [released EXCEPT ![p] = Append(@, "dir")]
    /\ Done(p, AfterDir(exc[p]))
    /\ UNCHANGED <<attempts, rundir, instance_id, fdtab, connected,
                   hasRegistry, handler, manager, delivered, binds,
                   listen_sock, sync_fds, sent, lastRoundtrip, printed,
                   acquired, globals, mayFail, namePool, unanswered>>

\* lines 47-48: main() has returned or raised and the interpreter exits; the
\* kernel closes every descriptor the process still holds
ProcessExit(p) ==
    /\ pc[p] \in {"returned", "raised"}
    /\ fdtab' = [fdtab EXCEPT ![p] = {}]
    /\ Done(p, "exited")
    /\ UNCHANGED <<attempts, rundir, instance_id, connected, hasRegistry,
                   handler, manager, delivered, binds, listen_sock, sync_fds,
                   sent, lastRoundtrip, printed, acquired, released, dirs,
                   sockFiles, globals, mayFail, namePool, unanswered>>

Step(p) ==
    \/ Mkdtemp(p)
    \/ InstanceId(p)
    \/ Connect(p)
    \/ GetRegistry(p)
    \/ InstallHandler(p)
    \/ Dispatch(p)
    \/ Roundtrip1(p)
    \/ Socket(p)
    \/ Bind(p)
    \/ Listen(p)
    \/ Pipe2(p)
    \/ CreateListener(p)
    \/ SetSandboxEngine(p)
    \/ SetAppId(p)
    \/ SetInstanceId(p)
    \/ Commit(p)
    \/ Destroy(p)
    \/ Roundtrip2(p)
    \/ ExitSock(p)
    \/ ExitDisplay(p)
    \/ WriteRundir(p)
    \/ ExitDir(p)
    \/ ProcessExit(p)

Next == \E p \in Procs : Step(p)

\* one invocation of the program
Spec == Init /\ [][Next]_vars

\* NumProcs concurrent invocations
SpecConc == InitConc /\ [][Next]_vars

\* one invocation over the wide set of directory names
SpecNames == InitNames /\ [][Next]_vars

\* one invocation against a server that may stay silent; the interpreter
\* runs the single thread of main() whenever its next statement can proceed
SpecLive == InitLive /\ [][Next]_vars /\ \A p \in Procs : WF_vars(Step(p))

Labels ==
    {"notrun", "mkdtemp", "instance_id", "connect", "get_registry",
     "install_handler", "dispatch", "roundtrip1", "socket", "bind", "listen",
     "pipe2", "create_listener", "set_sandbox_engine", "set_app_id",
     "set_instance_id", "commit", "destroy", "roundtrip2", "exit_sock",
     "exit_display", "print", "exit_dir", "returned", "raised", "exited"}

TypeOK ==
    /\ pc \in [Procs -> Labels]
    /\ exc \in [Procs -> Labels \cup {NoExc}]
    /\ \A p \in Procs : rundir[p] \in namePool \cup {None}
    /\ dirs \subseteq namePool \cup Names
    /\ sockFiles \subseteq namePool

\* ------------------------------------------------------ claim vocabulary
Has(p, op) == \E i \in DOMAIN sent[p] : sent[p][i].op = op
Count(p, op) == Cardinality({i \in DOMAIN sent[p] : sent[p][i].op = op})
InTrace(p, l) == \E i \in DOMAIN trace[p] : trace[p][i] = l
Before(p, a, b) ==
    \E i, j \in DOMAIN trace[p] : i < j /\ trace[p][i] = a /\ trace[p][j] = b
Finished(p) == pc[p] \in {"returned", "raised", "exited"}
Failed(p) == exc[p] # NoExc
Acked(p) == lastRoundtrip[p] # None /\ lastRoundtrip[p][1] >= 0
Nacked(p) == lastRoundtrip[p] # None /\ lastRoundtrip[p][1] < 0
LeftBehind(p) == rundir[p] \in dirs \/ rundir[p] \in sockFiles
Reverse(s) == [i \in 1..Len(s) |-> s[Len(s) + 1 - i]]
IsPrefix(s, t) == Len(s) <= Len(t) /\ SubSeq(t, 1, Len(s)) = s
SetOps == {"set_sandbox_engine", "set_app_id", "set_instance_id"}
Owns(p) ==
    /\ rundir[p] # None
    /\ \A i \in DOMAIN released[p] : released[p][i] # "dir"

\* C1: after a successful run (final round trip non-negative, main returned,
\* process gone) the printed path is a directory that still exists and holds
\* the socket file.
C1_PrintedPathSurvivesExit ==
    \A p \in Procs :
        pc[p] = "exited" /\ ~Failed(p) /\ Acked(p) =>
            /\ printed[p] = <<rundir[p]>>
            /\ rundir[p] \in dirs
            /\ rundir[p] \in sockFiles

\* C2: when the manager handle is still empty after the initial dispatch and
\* round trip, no socket is ever created, bound or listened on, the run ends
\* in an error, and no temporary directory remains afterwards.
C2_NoSocketWithoutManager ==
    \A p \in Procs :
        InTrace(p, "roundtrip1") /\ manager[p] = None =>
            /\ listen_sock[p].state = "none"
            /\ rundir[p] \notin sockFiles
            /\ Finished(p) => Failed(p) /\ ~LeftBehind(p)

\* C3: when the final round trip returns a negative result the run ends in
\* an error, the path is never printed, and once main has ended the
\* temporary directory (with its socket file) no longer exists.
C3_FailedRoundtripIsFatal ==
    \A p \in Procs :
        Nacked(p) =>
            /\ exc[p] = "roundtrip2"
            /\ printed[p] = <<>>
            /\ pc[p] \in {"exit_sock", "exit_display", "exit_dir", "raised", "exited"}
            /\ Finished(p) => ~LeftBehind(p)

C3_Witness ==
    \E p \in Procs : pc[p] = "exited" /\ lastRoundtrip[p] = <<-1>>

\* C4: no partial success: the path is printed only after commit was sent
\* and the final round trip acknowledged it, and every run that has ended
\* either did so, or failed with nothing printed and neither the directory
\* nor the socket file left behind.
C4_NoPartialSuccess ==
    \A p \in Procs :
        /\ printed[p] # <<>> =>
              Has(p, "commit") /\ Acked(p) /\ ~Failed(p) /\ printed[p] = <<rundir[p]>>
        /\ Finished(p) =>
              \/ Has(p, "commit") /\ Acked(p) /\ ~Failed(p) /\ printed[p] # <<>>
              \/ Failed(p) /\ printed[p] = <<>> /\ ~LeftBehind(p)

C4_Witness ==
    \E p \in Procs : pc[p] = "exited" /\ exc[p] = "destroy" /\ Has(p, "commit")

\* C5: commit is issued at most once, and exactly once in a run that got
\* past it; the three attributes are all set before it and none after it;
\* destroy comes after commit and nothing is requested after destroy.
C5_CommitOnceInOrder ==
    \A p \in Procs :
        /\ Count(p, "commit") <= 1
        /\ InTrace(p, "commit") => Count(p, "commit") = 1
        /\ \A i \in DOMAIN sent[p] :
              /\ sent[p][i].op = "commit" =>
                    /\ \A a \in SetOps : \E k \in 1..(i - 1) : sent[p][k].op = a
                    /\ \A j \in DOMAIN sent[p] : j > i => sent[p][j].op \notin SetOps
              /\ sent[p][i].op = "destroy" =>
                    /\ \E k \in 1..(i - 1) : sent[p][k].op = "commit"
                    /\ i = Len(sent[p])

C5_Witness ==
    \E p \in Procs :
        pc[p] = "roundtrip2" /\ Has(p, "commit") /\ Has(p, "destroy")

\* C6: create_listener is requested only after the handler was installed,
\* the events dispatched, the first round trip made, the socket bound and
\* listening and the pipe created, in this order; its arguments are the
\* descriptor of the listening socket and the write end of the pipe.
C6_CreateListenerAfterSetup ==
    \A p \in Procs :
        Has(p, "create_listener") =>
            /\ Before(p, "install_handler", "dispatch")
            /\ Before(p, "dispatch", "roundtrip1")
            /\ Before(p, "roundtrip1", "bind")
            /\ Before(p, "bind", "listen")
            /\ Before(p, "listen", "pipe2")
            /\ Before(p, "pipe2", "create_listener")
            /\ handler[p]
            /\ sent[p][1].op = "create_listener"
            /\ sent[p][1].args = <<listen_sock[p].fd, sync_fds[p][2]>>
            /\ pc[p] = "set_sandbox_engine" =>
                  /\ listen_sock[p].state = "listening"
                  /\ FdKind(fdtab[p], sent[p][1].args[1]) = "socket"
                  /\ FdKind(fdtab[p], sent[p][1].args[2]) = "pipe_w"

C6_Witness ==
    \E p \in Procs : pc[p] = "set_sandbox_engine" /\ Has(p, "create_listener")

\* C7 as stated: the write end of the pipe is open when create_listener is
\* invoked, and it is closed once the context handle has been destroyed or
\* the process has exited.
C7_ClosedOnceDestroyedOrExited ==
    \A p \in Procs :
        sync_fds[p] # <<>> =>
            /\ pc[p] \in {"create_listener", "set_sandbox_engine"} =>
                  FdKind(fdtab[p], sync_fds[p][2]) = "pipe_w"
            /\ Has(p, "destroy") \/ pc[p] = "exited" =>
                  ~FdOpen(fdtab[p], sync_fds[p][2])

\* C7 as amended: the write end of the pipe is open when create_listener is
\* invoked and stays open in the process, also after the context handle is
\* destroyed; it is closed when the process exits.
C7_WriteEndOpenUntilExit ==
    \A p \in Procs :
        sync_fds[p] # <<>> =>
            /\ pc[p] # "exited" => FdKind(fdtab[p], sync_fds[p][2]) = "pipe_w"
            /\ pc[p] = "exited" => ~FdOpen(fdtab[p], sync_fds[p][2])

C7_Witness ==
    \E p \in Procs :
        /\ Has(p, "destroy")
        /\ pc[p] = "returned"
        /\ FdKind(fdtab[p], sync_fds[p][2]) = "pipe_w"

\* C8: the resources acquired (directory, connection, socket) are released
\* in reverse order of acquisition, and when main has ended, normally or by
\* an exception, every one of them has been released.
C8_ReleasedInReverseOrder ==
    \A p \in Procs :
        /\ IsPrefix(released[p], Reverse(acquired[p]))
        /\ Finished(p) =>
              /\ released[p] = Reverse(acquired[p])
              /\ IsPrefix(acquired[p], <<"dir", "display", "socket">>)
              /\ ~LeftBehind(p)
              /\ connected[p] \in {"unconnected", "disconnected"}
              /\ listen_sock[p].state \in {"none", "closed"}
              /\ \A e \in fdtab[p] : e.kind \notin {"display", "socket"}

C8_Witness ==
    \E p \in Procs : pc[p] = "raised" /\ Len(acquired[p]) = 3

\* C9: when bind, listen or pipe creation fails the run ends at once: no
\* request is sent to the server, no path is printed, and once main has
\* ended the directory and any socket file in it are gone.
C9_ResourceFailureStopsRun ==
    \A p \in Procs :
        exc[p] \in {"bind", "listen", "pipe2"} =>
            /\ sent[p] = <<>>
            /\ printed[p] = <<>>
            /\ pc[p] \in {"exit_sock", "exit_display", "exit_dir", "raised", "exited"}
            /\ Finished(p) => ~LeftBehind(p)

C9_Witness ==
    \E p \in Procs :
        pc[p] = "exited" /\ exc[p] = "listen" /\ listen_sock[p].state = "closed"

\* C10: no two concurrent invocations own a runtime directory of the same
\* name at the same time.
C10_NoCollision ==
    \A p, q \in Procs :
        p # q /\ Owns(p) /\ Owns(q) => rundir[p] # rundir[q]

C10_Witness ==
    \E p, q \in Procs :
        /\ p # q
        /\ Owns(p)
        /\ pc[q] = "mkdtemp"
        /\ attempts[q] > 0

\* C11: the instance id passed to set_instance_id is the basename of the
\* created directory with the prefix isol- taken off its front exactly once:
\* the prefix followed by the id is the basename again, byte for byte, also
\* when the random part itself begins with the prefix.
C11_InstanceIdIsSuffix ==
    \A p \in Procs :
        \A i \in DOMAIN sent[p] :
            sent[p][i].op = "set_instance_id" =>
                /\ Len(sent[p][i].args) = 1
                /\ rundir[p] = RuntimeDir \o <<"/">> \o Prefix \o sent[p][i].args[1]

C11_Witness ==
    \E p \in Procs :
        \E i \in DOMAIN sent[p] :
            /\ sent[p][i].op = "set_instance_id"
            /\ StartsWith(sent[p][i].args[1], Prefix)
            /\ Len(sent[p][i].args[1]) > Len(Prefix)

Waits(p) == pc[p] \in unanswered

\* C12 as stated: dispatch and the two round trips block: with a server that
\* answers all of them every run ends; a run that reaches one of them that
\* the server never answers stays at that step for ever, has printed nothing
\* and its directory stays.
C12_BlocksAtDispatchOrRoundtrip ==
    /\ \A p \in Procs :
          (unanswered = {} /\ pc[p] = "mkdtemp") ~> (pc[p] = "exited")
    /\ [](\A p \in Procs : Waits(p) => printed[p] = <<>> /\ rundir[p] \in dirs)
    /\ [][\A p \in Procs : Waits(p) => pc'[p] = pc[p]]_vars

WaitsAtRoundtrip(p) == pc[p] \in unanswered \ {"dispatch"}

\* C12 as amended: the two round trips block, dispatch does not: with a
\* server that answers both round trips every run ends; a run that reaches a
\* round trip the server never answers stays there for ever, has printed
\* nothing and its directory stays.
C12_BlocksAtRoundtrip ==
    /\ \A p \in Procs :
          (unanswered \subseteq {"dispatch"} /\ pc[p] = "mkdtemp") ~> (pc[p] = "exited")
    /\ [](\A p \in Procs :
            WaitsAtRoundtrip(p) => printed[p] = <<>> /\ rundir[p] \in dirs)
    /\ [][\A p \in Procs : WaitsAtRoundtrip(p) => pc'[p] = pc[p]]_vars

C12_Witness ==
    \E p \in Procs :
        pc[p] = "roundtrip2" /\ "roundtrip2" \in unanswered /\ Has(p, "destroy")

IsManager(ev) == ev.interface = ManagerName
\* the manager globals among the events the handler of p has been given
Matches(p) == SelectSeq(SubSeq(globals, 1, delivered[p]), IsManager)

\* C13: after any sequence of global events given to the handler, the
\* manager handle is non-empty exactly when one of them named the
\* security-context-manager interface; the binds issued are those events'
\* ids and versions, one per matching event and none for any other event,
\* and the handle is the last of them.
C13_HandleIffManagerAdvertised ==
    \A p \in Procs :
        handler[p] =>
            /\ manager[p] # None <=> Matches(p) # <<>>
            /\ Len(binds[p]) = Len(Matches(p))
            /\ \A i \in DOMAIN binds[p] :
                  /\ binds[p][i].id = Matches(p)[i].id
                  /\ binds[p][i].version = Matches(p)[i].version
            /\ manager[p] # None => manager[p] = <<binds[p][Len(binds[p])]>>

C13_Witness ==
    \E p \in Procs :
        /\ delivered[p] = 2
        /\ IsManager(globals[1])
        /\ globals[1].version = 2
        /\ ~IsManager(globals[2])
        /\ manager[p] = <<[id |-> 1, version |-> 2]>>
        /\ Len(binds[p]) = 1

\* C14: when the path is printed the process has already closed its
\* listening socket and disconnected from the display server, while the
\* directory and the socket file in it still exist; the directory is removed
\* only after the print.
C14_PrintAfterCloseBeforeCleanup ==
    \A p \in Procs :
        /\ pc[p] = "print" \/ (pc[p] = "exit_dir" /\ printed[p] # <<>>) =>
              /\ listen_sock[p].state = "closed"
              /\ ~FdOpen(fdtab[p], listen_sock[p].fd)
              /\ connected[p] = "disconnected"
              /\ \A e \in fdtab[p] : e.kind \notin {"display", "socket"}
              /\ released[p] = <<"socket", "display">>
              /\ rundir[p] \in dirs
              /\ rundir[p] \in sockFiles
        /\ printed[p] # <<>> =>
              /\ printed[p] = <<rundir[p]>>
              /\ InTrace(p, "exit_dir") => Before(p, "print", "exit_dir")

C14_Witness ==
    \E p \in Procs :
        pc[p] = "exit_dir" /\ printed[p] # <<>> /\ rundir[p] \in sockFiles

\* C15: once the pipe exists main closes neither of its descriptors on any
\* path: both ends are open in the process until it exits, also when main
\* has returned or raised, and are gone once the process has exited.
C15_PipeEndsOpenUntilExit ==
    \A p \in Procs :
        sync_fds[p] # <<>> =>
            /\ Len(sync_fds[p]) = 2
            /\ pc[p] # "exited" =>
                  /\ FdKind(fdtab[p], sync_fds[p][1]) = "pipe_r"
                  /\ FdKind(fdtab[p], sync_fds[p][2]) = "pipe_w"
            /\ pc[p] = "exited" =>
                  /\ ~FdOpen(fdtab[p], sync_fds[p][1])
                  /\ ~FdOpen(fdtab[p], sync_fds[p][2])

C15_Witness ==
    \E p \in Procs :
        /\ pc[p] = "raised"
        /\ exc[p] = "commit"
        /\ FdKind(fdtab[p], sync_fds[p][1]) = "pipe_r"
        /\ FdKind(fdtab[p], sync_fds[p][2]) = "pipe_w"

====
